---- MODULE Spec2Model ----
(***************************************************************************)
(* Model of the streaming ingestion client of tempest_weather.py:          *)
(* main(), TempestWeatherClient.connect_and_listen, process_message and    *)
(* the six store_* handlers, with the websocket peer and the Supabase      *)
(* backend as the environment.                                             *)
(***************************************************************************)
EXTENDS Integers, Sequences, FiniteSets, TLC

VARIABLES
    env,            \* the environment variables that are set (lines 18-20)
    run_once,       \* '--once' in sys.argv (line 284)
    mpc,            \* position of main()
    client,         \* TRUE once TempestWeatherClient (and its Supabase client) exists
    stack,          \* active connect_and_listen activations, innermost last
    slept,          \* seconds spent in the asyncio.sleep in progress
    elapsed,        \* seconds since asyncio.wait_for started (run-once mode)
    data_received,  \* TempestWeatherClient.data_received
    tables,         \* rows held by the storage backend, per table
    sent,           \* the distinct subscription messages sent so far
    nframes,        \* inbound frames delivered so far
    ended,          \* how the latest outermost connect_and_listen ended
    utcoffset,      \* offset of the process's local time zone from UTC, in seconds
    poll,           \* the invocation of the polling client's collect_and_store
    last            \* what the receive loop did with the frame of its latest iteration

vars == <<env, run_once, mpc, client, stack, slept, elapsed, data_received,
          tables, sent, nframes, ended, utcoffset, poll, last>>

----
\* Bounds of the model.

\* Nested connect_and_listen activations explored.
MaxDepth == 2

\* Inbound frames delivered in one run.
MaxFrames == 2

----
\* Program constants.

\* asyncio.sleep(5) of the ConnectionClosed handler.
ReconnectDelay == 5

\* asyncio.sleep(10) of main's continuous loop.
RestartDelay == 10

\* asyncio.wait_for(..., timeout=120) of main's single-run branch.
Timeout == 120

\* "device_id" of the subscription message.
SubscribedDevice == 469455

EnvNames == {"TEMPEST_TOKEN", "SUPABASE_URL", "SUPABASE_KEY"}

subscribe_message ==
    [type |-> "listen_start", device_id |-> SubscribedDevice, id |-> "tempest-listener"]

----
\* Inbound frames.  A JSON object is modelled by its "type", its "device_id",
\* its "serial_number" and the value under its payload key ("obs", "ob" or
\* "evt"): present or not, and the array found there.

Epochs == {1700000000, 1700000180}

Serials == {"ST-00000512"}

\* "device_id" of the inbound frames: the subscribed station and another device.
DeviceIds == {SubscribedDevice, 1}

\* The epoch each device reports in its payloads.
ReportedAt(d) == IF d = SubscribedDevice THEN 1700000000 ELSE 1700000180

ObsTypes == {"obs_st", "obs_air", "obs_sky"}

FlatTypes == {"rapid_wind", "evt_precip", "evt_strike"}

RecognizedTypes == ObsTypes \cup FlatTypes

StatusTypes == {"device_status", "hub_status"}

OtherTypes == {"ack", "None"}

\* Highest position each handler reads from its payload array.
MaxIndex(t) ==
    CASE t = "obs_st"     -> 17
      [] t = "obs_air"    -> 7
      [] t = "obs_sky"    -> 13
      [] t = "rapid_wind" -> 2
      [] t = "evt_precip" -> 0
      [] t = "evt_strike" -> 2

\* A payload array of n elements: the epoch first, then a value that tells
\* its position.
Arr(n, e) == [i \in 1..n |-> IF i = 1 THEN e ELSE 100 + (i - 1)]

Lens(t) == {0, 1, MaxIndex(t), MaxIndex(t) + 1, MaxIndex(t) + 2}

Absent == [present |-> FALSE, val |-> <<>>]

\* Values of "ob" / "evt": a flat array.
FlatPayloads(t) ==
    {Absent} \cup {[present |-> TRUE, val |-> Arr(n, e)] : n \in Lens(t), e \in Epochs}

\* Values of "obs": an array of observation arrays.
ObsPayloads(t) ==
    {Absent}
    \cup {[present |-> TRUE, val |-> <<>>]}
    \cup {[present |-> TRUE, val |-> <<Arr(n, e)>>] : n \in Lens(t), e \in Epochs}
    \cup {[present |-> TRUE, val |-> <<Arr(MaxIndex(t) + 1, e), Arr(MaxIndex(t) + 1, e + 60)>>] :
            e \in Epochs}

Payloads(t) == IF t \in ObsTypes THEN ObsPayloads(t) ELSE FlatPayloads(t)

Envelope(t, p, d, sn) == [type |-> t, device_id |-> d, serial_number |-> sn, payload |-> p]

----
\* Python list access and the timestamp conversion.

\* obs[i] raises IndexError unless i < len(obs).
HasIndex(obs, i) == i + 1 <= Len(obs)

At(obs, i) == obs[i + 1]

\* Offsets of the local time zone the process may run in: UTC, and five hours
\* west of it.
UtcOffsets == {0, 0 - 18000}

\* datetime.fromtimestamp(e).isoformat(): the wall-clock time of the process's
\* local zone, in seconds, written without an offset.
fromtimestamp_isoformat(e) == [wall |-> e + utcoffset, offset |-> "naive"]

\* data.get('obs', [[]]) indexed at its last array.
first_obs_Last(p) ==
    IF ~p.present THEN [raised |-> FALSE, val |-> <<>>]
    ELSE IF Len(p.val) = 0 THEN [raised |-> TRUE, val |-> <<>>]
    ELSE [raised |-> FALSE, val |-> p.val[Len(p.val)]]

\* data.get('obs', [[]])[0]
first_obs(p) ==
    IF ~p.present THEN [raised |-> FALSE, val |-> <<>>]
    ELSE IF Len(p.val) = 0 THEN [raised |-> TRUE, val |-> <<>>]
    ELSE [raised |-> FALSE, val |-> p.val[1]]

Return == [status |-> "return", table |-> "none", record |-> <<>>, flag |-> FALSE]

Raise == [status |-> "raise", table |-> "none", record |-> <<>>, flag |-> FALSE]

DoInsert(t, r, f) == [status |-> "insert", table |-> t, record |-> r, flag |-> f]
----
\* The body of each store_* handler up to its insert: what it leaves the try
\* block with.  "raise" is an exception raised before the insert.

tempest_body(data) ==
    LET f == first_obs(data.payload)
        obs == f.val
    IN  IF f.raised THEN Raise
        ELSE IF Len(obs) = 0 THEN Return
        ELSE IF ~HasIndex(obs, 17) THEN Raise
        ELSE DoInsert("observations_tempest",
                 [timestamp |-> fromtimestamp_isoformat(At(obs, 0)),
                  device_id |-> data.device_id,
                  wind_lull |-> At(obs, 1),
                  wind_avg |-> At(obs, 2),
                  wind_gust |-> At(obs, 3),
                  wind_direction |-> At(obs, 4),
                  wind_sample_interval |-> At(obs, 5),
                  pressure |-> At(obs, 6),
                  air_temperature |-> At(obs, 7),
                  relative_humidity |-> At(obs, 8),
                  illuminance |-> At(obs, 9),
                  uv_index |-> At(obs, 10),
                  solar_radiation |-> At(obs, 11),
                  rain_accumulation |-> At(obs, 12),
                  precipitation_type |-> At(obs, 13),
                  lightning_avg_distance |-> At(obs, 14),
                  lightning_strike_count |-> At(obs, 15),
                  battery |-> At(obs, 16),
                  report_interval |-> At(obs, 17)],
                 TRUE)

\* store_rapid_wind's body with the device of the subscription in the record.
rapid_wind_body_SubscribedDevice(data) ==
    LET obs == IF data.payload.present THEN data.payload.val ELSE <<>>
    IN  IF Len(obs) = 0 THEN Return
        ELSE IF ~HasIndex(obs, 2) THEN Raise
        ELSE DoInsert("rapid_wind",
                 [timestamp |-> fromtimestamp_isoformat(At(obs, 0)),
                  device_id |-> SubscribedDevice,
                  wind_speed |-> At(obs, 1),
                  wind_direction |-> At(obs, 2)],
                 FALSE)

rapid_wind_body(data) ==
    LET obs == IF data.payload.present THEN data.payload.val ELSE <<>>
    IN  IF Len(obs) = 0 THEN Return
        ELSE IF ~HasIndex(obs, 2) THEN Raise
        ELSE DoInsert("rapid_wind",
                 [timestamp |-> fromtimestamp_isoformat(At(obs, 0)),
                  device_id |-> data.device_id,
                  wind_speed |-> At(obs, 1),
                  wind_direction |-> At(obs, 2)],
                 FALSE)

precipitation_body(data) ==
    LET evt == IF data.payload.present THEN data.payload.val ELSE <<0>>
    IN  IF ~HasIndex(evt, 0) THEN Raise
        ELSE DoInsert("precipitation_events",
                 [timestamp |-> fromtimestamp_isoformat(At(evt, 0)),
                  device_id |-> data.device_id,
                  serial_number |-> data.serial_number],
                 FALSE)

lightning_body(data) ==
    LET evt == IF data.payload.present THEN data.payload.val ELSE <<>>
    IN  IF ~HasIndex(evt, 2) THEN Raise
        ELSE DoInsert("lightning_strikes",
                 [timestamp |-> fromtimestamp_isoformat(At(evt, 0)),
                  device_id |-> data.device_id,
                  serial_number |-> data.serial_number,
                  distance |-> At(evt, 1),
                  energy |-> At(evt, 2)],
                 FALSE)

air_body(data) ==
    LET f == first_obs(data.payload)
        obs == f.val
    IN  IF f.raised THEN Raise
        ELSE IF ~HasIndex(obs, 7) THEN Raise
        ELSE DoInsert("air_observations",
                 [timestamp |-> fromtimestamp_isoformat(At(obs, 0)),
                  device_id |-> data.device_id,
                  serial_number |-> data.serial_number,
                  station_pressure |-> At(obs, 1),
                  air_temperature |-> At(obs, 2),
                  relative_humidity |-> At(obs, 3),
                  lightning_strike_count |-> At(obs, 4),
                  lightning_avg_distance |-> At(obs, 5),
                  battery |-> At(obs, 6),
                  report_interval |-> At(obs, 7)],
                 FALSE)

sky_body(data) ==
    LET f == first_obs(data.payload)
        obs == f.val
    IN  IF f.raised THEN Raise
        ELSE IF ~HasIndex(obs, 13) THEN Raise
        ELSE DoInsert("sky_observations",
                 [timestamp |-> fromtimestamp_isoformat(At(obs, 0)),
                  device_id |-> data.device_id,
                  serial_number |-> data.serial_number,
                  illuminance |-> At(obs, 1),
                  uv |-> At(obs, 2),
                  rain_accumulated |-> At(obs, 3),
                  wind_lull |-> At(obs, 4),
                  wind_avg |-> At(obs, 5),
                  wind_gust |-> At(obs, 6),
                  wind_direction |-> At(obs, 7),
                  battery |-> At(obs, 8),
                  report_interval |-> At(obs, 9),
                  solar_radiation |-> At(obs, 10),
                  local_day_rain_accumulation |-> At(obs, 11),
                  precipitation_type |-> At(obs, 12),
                  wind_sample_interval |-> At(obs, 13)],
                 FALSE)

----
\* The storage backend: insert(record).execute() on a table.

TableNames ==
    {"observations_tempest", "rapid_wind", "precipitation_events",
     "lightning_strikes", "air_observations", "sky_observations"}

\* The rows of a table are unique in (device_id, timestamp).
SameKey(r1, r2) == r1.device_id = r2.device_id /\ r1.timestamp = r2.timestamp

\* What execute() can do with an insert: add the row, reject it for the
\* uniqueness constraint, or fail otherwise; the last two raise.
InsertOutcomes(t, r) ==
    IF \E row \in tables[t] : SameKey(row, r)
    THEN {"duplicate", "failure"}
    ELSE {"ok", "failure"}

\* Guarded with an except clause that lets the exception of execute() through.
Guarded_InsertEscapes(body, outcome) ==
    IF body.status = "return"
    THEN [table |-> "none", record |-> <<>>, result |-> "none", report |-> "none",
          flag |-> FALSE, escaped |-> FALSE]
    ELSE IF body.status = "raise"
    THEN [table |-> "none", record |-> <<>>, result |-> "none", report |-> "error",
          flag |-> FALSE, escaped |-> FALSE]
    ELSE IF outcome = "ok"
    THEN [table |-> body.table, record |-> body.record, result |-> "ok",
          report |-> "stored", flag |-> body.flag, escaped |-> FALSE]
    ELSE [table |-> body.table, record |-> body.record, result |-> outcome,
          report |-> "none", flag |-> FALSE, escaped |-> TRUE]

\* Guarded with the record built outside the try block: an IndexError leaves
\* the handler.
Guarded_DecodeEscapes(body, outcome) ==
    IF body.status = "return"
    THEN [table |-> "none", record |-> <<>>, result |-> "none", report |-> "none",
          flag |-> FALSE, escaped |-> FALSE]
    ELSE IF body.status = "raise"
    THEN [table |-> "none", record |-> <<>>, result |-> "none", report |-> "none",
          flag |-> FALSE, escaped |-> TRUE]
    ELSE IF outcome = "ok"
    THEN [table |-> body.table, record |-> body.record, result |-> "ok",
          report |-> "stored", flag |-> body.flag, escaped |-> FALSE]
    ELSE [table |-> body.table, record |-> body.record, result |-> outcome,
          report |-> "error", flag |-> FALSE, escaped |-> FALSE]

\* A handler's try/except around its body: the insert is attempted when the
\* body reaches it; every exception, of the body or of the insert, is caught
\* and printed.  flag: data_received is set.  escaped: an exception leaves
\* the handler.
Guarded(body, outcome) ==
    IF body.status = "return"
    THEN [table |-> "none", record |-> <<>>, result |-> "none", report |-> "none",
          flag |-> FALSE, escaped |-> FALSE]
    ELSE IF body.status = "raise"
    THEN [table |-> "none", record |-> <<>>, result |-> "none", report |-> "error",
          flag |-> FALSE, escaped |-> FALSE]
    ELSE IF outcome = "ok"
    THEN [table |-> body.table, record |-> body.record, result |-> "ok",
          report |-> "stored", flag |-> body.flag, escaped |-> FALSE]
    ELSE [table |-> body.table, record |-> body.record, result |-> outcome,
          report |-> "error", flag |-> FALSE, escaped |-> FALSE]

store_tempest_observation(data, outcome) == Guarded(tempest_body(data), outcome)

store_rapid_wind(data, outcome) == Guarded(rapid_wind_body(data), outcome)

store_precipitation_event(data, outcome) == Guarded(precipitation_body(data), outcome)

store_lightning_strike(data, outcome) == Guarded(lightning_body(data), outcome)

store_air_observation(data, outcome) == Guarded(air_body(data), outcome)

store_sky_observation(data, outcome) == Guarded(sky_body(data), outcome)

\* The handler's body for a recognized type, for the choice of the backend's answer.
BodyOf(data) ==
    CASE data.type = "obs_st"     -> tempest_body(data)
      [] data.type = "obs_air"    -> air_body(data)
      [] data.type = "obs_sky"    -> sky_body(data)
      [] data.type = "rapid_wind" -> rapid_wind_body(data)
      [] data.type = "evt_precip" -> precipitation_body(data)
      [] data.type = "evt_strike" -> lightning_body(data)

\* process_message whose else branch falls into the precipitation handler.
process_message_ElseStores(data, outcome) ==
    CASE data.type = "obs_st"     -> store_tempest_observation(data, outcome)
      [] data.type = "obs_air"    -> store_air_observation(data, outcome)
      [] data.type = "obs_sky"    -> store_sky_observation(data, outcome)
      [] data.type = "rapid_wind" -> store_rapid_wind(data, outcome)
      [] data.type = "evt_strike" -> store_lightning_strike(data, outcome)
      [] data.type \in StatusTypes ->
            [table |-> "none", record |-> <<>>, result |-> "none", report |-> "status",
             flag |-> FALSE, escaped |-> FALSE]
      [] OTHER -> store_precipitation_event(data, outcome)

\* process_message: dispatch on data.get('type').
process_message(data, outcome) ==
    CASE data.type = "obs_st"     -> store_tempest_observation(data, outcome)
      [] data.type = "obs_air"    -> store_air_observation(data, outcome)
      [] data.type = "obs_sky"    -> store_sky_observation(data, outcome)
      [] data.type = "rapid_wind" -> store_rapid_wind(data, outcome)
      [] data.type = "evt_precip" -> store_precipitation_event(data, outcome)
      [] data.type = "evt_strike" -> store_lightning_strike(data, outcome)
      [] data.type \in StatusTypes ->
            [table |-> "none", record |-> <<>>, result |-> "none", report |-> "status",
             flag |-> FALSE, escaped |-> FALSE]
      [] OTHER ->
            [table |-> "none", record |-> <<>>, result |-> "none", report |-> "unknown",
             flag |-> FALSE, escaped |-> FALSE]
----
\* State of the control flow.

\* One activation of connect_and_listen.  pc: "connect" (awaiting
\* websockets.connect), "send" (awaiting websocket.send), "recv" (awaiting the
\* next frame), "sleep" (asyncio.sleep(5) of the handler), "call" (awaiting
\* the nested connect_and_listen).  ws: the connection of its async-with
\* block: "none" before it is entered, then "open", "closed" once the peer
\* closed it.  subs: subscription messages sent on it.
Activation(pc, ws, subs) == [pc |-> pc, ws |-> ws, subs |-> subs]

Depth == Len(stack)

Top == stack[Depth]

SetTop(a) == [stack EXCEPT ![Depth] = a]

\* No response to the polling request.
NoResponse == [present |-> FALSE, obs |-> <<>>]

\* No invocation of collect_and_store.
NoPoll ==
    [pc |-> "none", window |-> <<0, 0>>, requests |-> 0, response |-> NoResponse,
     i |-> 0, calls |-> 0, stored |-> 0, duplicates |-> 0, errors |-> 0, returned |-> 0]

NoFrame ==
    [kind |-> "none", type |-> "none", device |-> 0, present |-> FALSE, outer |-> 0,
     n |-> 0,
     table |-> "none", record |-> <<>>, result |-> "none", report |-> "none",
     flag |-> FALSE, escaped |-> FALSE]

Init ==
    /\ env \in SUBSET EnvNames
    /\ run_once \in BOOLEAN
    /\ mpc = "start"
    /\ client = FALSE
    /\ stack = <<>>
    /\ slept = 0
    /\ elapsed = 0
    /\ data_received = FALSE
    /\ tables = [t \in TableNames |-> {}]
    /\ sent = {}
    /\ nframes = 0
    /\ ended = "none"
    /\ utcoffset \in UtcOffsets
    /\ poll = NoPoll
    /\ last = NoFrame

\* The configuration checks without the one of the storage credentials.
Validate_TokenOnly ==
    /\ mpc = "start"
    /\ IF "TEMPEST_TOKEN" \notin env
       THEN mpc' = "config_error" /\ client' = client
       ELSE mpc' = "call" /\ client' = TRUE
    /\ UNCHANGED <<poll, utcoffset, env, run_once, stack, slept, elapsed, data_received, tables, sent,
                   nframes, ended, last>>

\* main, lines 275-294: the configuration checks, then the client.
Validate ==
    /\ mpc = "start"
    /\ IF "TEMPEST_TOKEN" \notin env
       THEN mpc' = "config_error" /\ client' = client
       ELSE IF "SUPABASE_URL" \notin env \/ "SUPABASE_KEY" \notin env
       THEN mpc' = "config_error" /\ client' = client
       ELSE mpc' = "call" /\ client' = TRUE
    /\ UNCHANGED <<poll, utcoffset, env, run_once, stack, slept, elapsed, data_received, tables, sent,
                   nframes, ended, last>>

\* main, line 299 or line 309: connect_and_listen is called.
CallListen ==
    /\ mpc = "call"
    /\ mpc' = "listen"
    /\ stack' = <<Activation("connect", "none", 0)>>
    /\ elapsed' = 0
    /\ ended' = "none"
    /\ last' = NoFrame
    /\ UNCHANGED <<poll, utcoffset, env, run_once, client, slept, data_received, tables, sent, nframes>>

\* main's handler without its sleep: the loop calls connect_and_listen at once.
main_on_exception_NoDelay ==
    /\ stack' = <<>>
    /\ slept' = 0
    /\ mpc' = IF run_once THEN "exit1" ELSE "call"
    /\ ended' = "raised"

\* An exception leaves the outermost connect_and_listen: every activation is
\* unwound, and main's handler takes it (lines 302-304, or 310-313).
main_on_exception ==
    /\ stack' = <<>>
    /\ slept' = 0
    /\ mpc' = IF run_once THEN "exit1" ELSE "sleep"
    /\ ended' = "raised"

\* main that ends when connect_and_listen returns, in either mode.
main_on_return_Ends ==
    /\ stack' = <<>>
    /\ slept' = 0
    /\ mpc' = "done"
    /\ ended' = "returned"

\* The outermost connect_and_listen returns: every activation is unwound;
\* main ends (line 299) or loops (line 307).
main_on_return ==
    /\ stack' = <<>>
    /\ slept' = 0
    /\ mpc' = IF run_once THEN "done" ELSE "call"
    /\ ended' = "returned"

\* connect_and_listen that enters its receive loop without subscribing.
Connect_NoSubscribe ==
    /\ Depth > 0 /\ Top.pc = "connect"
    /\ \E ok \in BOOLEAN :
          IF ok
          THEN /\ stack' = SetTop(Activation("recv", "open", 0))
               /\ UNCHANGED <<mpc, slept, ended>>
          ELSE main_on_exception
    /\ UNCHANGED <<poll, utcoffset, env, run_once, client, elapsed, data_received, tables, sent, nframes,
                   last>>

\* Line 37: websockets.connect succeeds or raises.
Connect ==
    /\ Depth > 0 /\ Top.pc = "connect"
    /\ \E ok \in BOOLEAN :
          IF ok
          THEN /\ stack' = SetTop(Activation("send", "open", 0))
               /\ UNCHANGED <<mpc, slept, ended>>
          ELSE main_on_exception
    /\ UNCHANGED <<poll, utcoffset, env, run_once, client, elapsed, data_received, tables, sent, nframes,
                   last>>

\* Lines 39-45: the subscription is sent, or the send raises.
Subscribe ==
    /\ Depth > 0 /\ Top.pc = "send"
    /\ \E ok \in BOOLEAN :
          IF ok
          THEN /\ stack' = SetTop(Activation("recv", Top.ws, Top.subs + 1))
               /\ sent' = sent \cup {subscribe_message}
               /\ UNCHANGED <<mpc, slept, ended>>
          ELSE main_on_exception /\ sent' = sent
    /\ UNCHANGED <<poll, utcoffset, env, run_once, client, elapsed, data_received, tables, nframes, last>>
\* Number of observation arrays under "obs" (0 for the flat payloads).
OuterLen(t, p) == IF t \in ObsTypes /\ p.present THEN Len(p.val) ELSE 0

\* Length of the payload array the handler decodes, 0 when there is none.
PayloadLen(t, p) ==
    IF ~p.present THEN 0
    ELSE IF t \in ObsTypes THEN (IF Len(p.val) = 0 THEN 0 ELSE Len(p.val[1]))
    ELSE Len(p.val)

\* Epoch at position 0 of the payload array the handler decodes.
HeadOf(t, p) == IF t \in ObsTypes THEN p.val[1][1] ELSE p.val[1]

\* The payloads device d sends under type t.
FramePayloads(t, d) ==
    IF t \in RecognizedTypes
    THEN {p \in Payloads(t) : PayloadLen(t, p) = 0 \/ HeadOf(t, p) = ReportedAt(d)}
    ELSE {Absent}

\* Line 51 or line 65: the frame is no JSON text (json.loads raises), or its
\* JSON value is no object (data.get raises); the exception is not a
\* ConnectionClosed and leaves connect_and_listen.
ReceiveMalformed ==
    /\ Depth > 0 /\ Top.pc = "recv"
    /\ nframes < MaxFrames
    /\ \E k \in {"invalid_json", "non_object"} :
          last' = [NoFrame EXCEPT !.kind = k, !.escaped = TRUE]
    /\ nframes' = nframes + 1
    /\ main_on_exception
    /\ UNCHANGED <<poll, utcoffset, env, run_once, client, elapsed, data_received, tables, sent>>

\* The tables once the handler's insert(record).execute() has returned.
Stored_Late(r) == tables

\* The handler's insert(record).execute() is a blocking call: the row is in
\* the table when the handler goes on.
Stored(r) ==
    IF r.result = "ok" THEN [tables EXCEPT ![r.table] = @ \cup {r.record}] ELSE tables

\* Lines 55-57 with the check never true.
exit_after_data_Never(flag) == FALSE

\* Lines 55-57: after each message, run-once mode leaves once data was stored.
exit_after_data(flag) == run_once /\ (data_received \/ flag)

\* Lines 50-57: one iteration of the receive loop on a JSON object.
ReceiveMessage ==
    /\ Depth > 0 /\ Top.pc = "recv"
    /\ nframes < MaxFrames
    /\ \E t \in RecognizedTypes \cup StatusTypes \cup OtherTypes, sn \in Serials,
          d \in DeviceIds :
       \E p \in FramePayloads(t, d) :
          LET data == Envelope(t, p, d, sn)
              answers == IF t \in RecognizedTypes /\ BodyOf(data).status = "insert"
                         THEN InsertOutcomes(BodyOf(data).table, BodyOf(data).record)
                         ELSE {"none"}
          IN  \E outcome \in answers :
                 LET r == process_message(data, outcome)
                 IN  /\ tables' = Stored(r)
                     /\ data_received' = (data_received \/ r.flag)
                     /\ last' = [kind |-> "object", type |-> t, device |-> d,
                                 present |-> p.present,
                                 outer |-> OuterLen(t, p), n |-> PayloadLen(t, p),
                                 table |-> r.table, record |-> r.record,
                                 result |-> r.result, report |-> r.report,
                                 flag |-> r.flag, escaped |-> r.escaped]
                     /\ IF r.escaped THEN main_on_exception
                        ELSE IF exit_after_data(r.flag) THEN main_on_return
                        ELSE UNCHANGED <<stack, mpc, slept, ended>>
    /\ nframes' = nframes + 1
    /\ UNCHANGED <<poll, utcoffset, env, run_once, client, elapsed, sent>>

\* Lines 58-60: the frame iterator raises ConnectionClosed; the handler
\* starts its sleep, in either mode.
PeerClosed ==
    /\ Depth > 0 /\ Top.pc = "recv"
    /\ stack' = SetTop(Activation("sleep", "closed", Top.subs))
    /\ slept' = 0
    /\ last' = NoFrame
    /\ UNCHANGED <<poll, utcoffset, env, run_once, mpc, client, elapsed, data_received, tables, sent,
                   nframes, ended>>

\* Line 50: the frame iterator ends without an exception (the connection was
\* closed normally); connect_and_listen returns.
StreamEnd ==
    /\ Depth > 0 /\ Top.pc = "recv"
    /\ main_on_return
    /\ last' = NoFrame
    /\ UNCHANGED <<poll, utcoffset, env, run_once, client, elapsed, data_received, tables, sent, nframes>>

\* Line 50: the frame iterator raises an exception that is no ConnectionClosed.
ReceiveFails ==
    /\ Depth > 0 /\ Top.pc = "recv"
    /\ main_on_exception
    /\ last' = NoFrame
    /\ UNCHANGED <<poll, utcoffset, env, run_once, client, elapsed, data_received, tables, sent, nframes>>

\* A sleep is in progress: of the closure handler (line 60) or of main (line 313).
Sleeping ==
    \/ Depth > 0 /\ Top.pc = "sleep" /\ slept < ReconnectDelay
    \/ mpc = "sleep" /\ slept < RestartDelay

\* One second of a sleep passes.
Tick ==
    /\ Sleeping
    /\ run_once => elapsed < Timeout
    /\ slept' = slept + 1
    /\ elapsed' = IF run_once THEN elapsed + 1 ELSE elapsed
    /\ UNCHANGED <<poll, utcoffset, env, run_once, mpc, client, stack, data_received, tables, sent,
                   nframes, ended, last>>

\* Run-once mode: the awaited connection, send or frame does not come before
\* the deadline of wait_for.
Idle ==
    /\ run_once /\ mpc = "listen"
    /\ Depth > 0 /\ Top.pc \in {"connect", "send", "recv"}
    /\ elapsed < Timeout
    /\ elapsed' = Timeout
    /\ UNCHANGED <<poll, utcoffset, env, run_once, mpc, client, stack, slept, data_received, tables, sent,
                   nframes, ended, last>>

\* The closure handler without its sleep: it reconnects at once.
Reconnect_NoDelay ==
    /\ Depth > 0 /\ Top.pc = "sleep"
    /\ Depth < MaxDepth
    /\ stack' = Append(SetTop(Activation("call", Top.ws, Top.subs)),
                       Activation("connect", "none", 0))
    /\ slept' = 0
    /\ UNCHANGED <<poll, utcoffset, env, run_once, mpc, client, elapsed, data_received, tables, sent,
                   nframes, ended, last>>

\* Line 61: after its sleep the handler calls connect_and_listen again, inside
\* its own async-with block.
Reconnect ==
    /\ Depth > 0 /\ Top.pc = "sleep" /\ slept = ReconnectDelay
    /\ Depth < MaxDepth
    /\ stack' = Append(SetTop(Activation("call", Top.ws, Top.subs)),
                       Activation("connect", "none", 0))
    /\ slept' = 0
    /\ UNCHANGED <<poll, utcoffset, env, run_once, mpc, client, elapsed, data_received, tables, sent,
                   nframes, ended, last>>

\* Lines 307-313: after its sleep main's loop calls connect_and_listen again.
Restart ==
    /\ mpc = "sleep" /\ slept = RestartDelay
    /\ mpc' = "call"
    /\ slept' = 0
    /\ UNCHANGED <<poll, utcoffset, env, run_once, client, stack, elapsed, data_received, tables, sent,
                   nframes, ended, last>>

\* The timeout handler without the cancellation: main ends, the session stays.
TimeoutExpires_KeepsSession ==
    /\ run_once /\ mpc = "listen"
    /\ elapsed = Timeout
    /\ mpc' = "timeout"
    /\ ended' = "cancelled"
    /\ UNCHANGED <<poll, utcoffset, env, run_once, client, stack, slept, elapsed, data_received,
                   tables, sent, nframes, last>>

\* Lines 299-301: wait_for's timeout expires; connect_and_listen is cancelled
\* at its await and main ends.
TimeoutExpires ==
    /\ run_once /\ mpc = "listen"
    /\ elapsed = Timeout
    /\ stack' = <<>>
    /\ slept' = 0
    /\ mpc' = "timeout"
    /\ ended' = "cancelled"
    /\ UNCHANGED <<poll, utcoffset, env, run_once, client, elapsed, data_received, tables, sent, nframes,
                   last>>

Next ==
    \/ Validate
    \/ CallListen
    \/ Connect
    \/ Subscribe
    \/ ReceiveMalformed
    \/ ReceiveMessage
    \/ PeerClosed
    \/ StreamEnd
    \/ ReceiveFails
    \/ Tick
    \/ Idle
    \/ Reconnect
    \/ Restart
    \/ TimeoutExpires

Spec == Init /\ [][Next]_vars

\* Continuous mode: the process was started without --once.
ContinuousInit == Init /\ ~run_once

\* The steps of continuous mode: those of Next but the two of wait_for's
\* deadline, which is only set in run-once mode.
ContinuousNext ==
    \/ Validate
    \/ CallListen
    \/ Connect
    \/ Subscribe
    \/ ReceiveMalformed
    \/ ReceiveMessage
    \/ PeerClosed
    \/ StreamEnd
    \/ ReceiveFails
    \/ Tick
    \/ Reconnect
    \/ Restart

\* The event loop of asyncio runs a coroutine that can go on: a sleep in
\* progress passes, and main's loop goes from its sleep to the next call of
\* connect_and_listen.  What the peer and the backend do is left free.
LiveSpec ==
    /\ ContinuousInit /\ [][ContinuousNext]_vars
    /\ WF_vars(Tick) /\ WF_vars(Restart) /\ WF_vars(CallListen)
----
\* The polling client: one invocation of collect_and_store.  poll.pc: "start",
\* "request" (the window is computed), "got" (the request was answered or
\* not), "returned" (with poll.returned the count), "raised".

\* Observation arrays in one response.
MaxBatch == 2

\* The lookback of the time window, 15 minutes, in seconds.
Lookback == 900

\* Times of an invocation.
PollNows == {1700000200, 1700001000}

\* The answers to a request for the window w: none, or a list of full-station
\* arrays whose epochs lie in w.
PollResponses(w) ==
    LET arrays == {Arr(n, e) : n \in {MaxIndex("obs_st"), MaxIndex("obs_st") + 1},
                               e \in {x \in Epochs : w[1] <= x /\ x <= w[2]}}
    IN  {NoResponse}
        \cup {[present |-> TRUE, obs |-> s] :
                s \in UNION {[1..k -> arrays] : k \in 0..MaxBatch}}

\* The polling path writes the UTC time of the epoch, with its offset.
utc_isoformat(e) == [wall |-> e, offset |-> "+00:00"]

\* One observation array decoded as in the streaming path.
poll_body(arr) ==
    LET b == tempest_body(Envelope("obs_st", [present |-> TRUE, val |-> <<arr>>],
                                   SubscribedDevice, CHOOSE sn \in Serials : TRUE))
    IN  IF b.status = "insert"
        THEN [b EXCEPT !.record = [b.record EXCEPT !.timestamp = utc_isoformat(At(arr, 0))]]
        ELSE b

PollInit ==
    /\ env = EnvNames
    /\ run_once = TRUE
    /\ mpc = "poll"
    /\ client = TRUE
    /\ stack = <<>>
    /\ slept = 0
    /\ elapsed = 0
    /\ data_received = FALSE
    /\ tables = [t \in TableNames |-> {}]
    /\ sent = {}
    /\ nframes = 0
    /\ ended = "none"
    /\ utcoffset \in UtcOffsets
    /\ poll = [NoPoll EXCEPT !.pc = "start"]
    /\ last = NoFrame

\* The window [now - lookback, now] is computed.
PollWindow ==
    /\ poll.pc = "start"
    /\ \E now \in PollNows :
          poll' = [poll EXCEPT !.pc = "request", !.window = <<now - Lookback, now>>]
    /\ UNCHANGED <<utcoffset, env, run_once, mpc, client, stack, slept, elapsed,
                   data_received, tables, sent, nframes, ended, last>>

\* The one request of the invocation, and its answer.
PollRequest ==
    /\ poll.pc = "request"
    /\ \E resp \in PollResponses(poll.window) :
          poll' = [poll EXCEPT !.pc = "got", !.response = resp, !.requests = @ + 1]
    /\ UNCHANGED <<utcoffset, env, run_once, mpc, client, stack, slept, elapsed,
                   data_received, tables, sent, nframes, ended, last>>

\* No response, or an empty observation list, taken as an error.
PollNoData_Raises ==
    /\ poll.pc = "got"
    /\ ~poll.response.present \/ Len(poll.response.obs) = 0
    /\ poll' = [poll EXCEPT !.pc = "raised"]
    /\ UNCHANGED <<utcoffset, env, run_once, mpc, client, stack, slept, elapsed,
                   data_received, tables, sent, nframes, ended, last>>

\* No response, or an empty observation list: collect_and_store returns 0.
PollNoData ==
    /\ poll.pc = "got"
    /\ ~poll.response.present \/ Len(poll.response.obs) = 0
    /\ poll' = [poll EXCEPT !.pc = "returned", !.returned = 0]
    /\ UNCHANGED <<utcoffset, env, run_once, mpc, client, stack, slept, elapsed,
                   data_received, tables, sent, nframes, ended, last>>

\* The next observation array of the response is decoded and stored; a
\* duplicate is counted apart from a success, and neither it nor a failure
\* ends the invocation.
PollStore ==
    /\ poll.pc = "got"
    /\ poll.response.present /\ poll.i < Len(poll.response.obs)
    /\ LET b == poll_body(poll.response.obs[poll.i + 1])
       IN  IF b.status # "insert"
           THEN /\ poll' = [poll EXCEPT !.i = @ + 1, !.errors = @ + 1]
                /\ tables' = tables
           ELSE \E outcome \in InsertOutcomes(b.table, b.record) :
                   /\ poll' = [poll EXCEPT !.i = @ + 1, !.calls = @ + 1,
                                  !.stored = IF outcome = "ok" THEN @ + 1 ELSE @,
                                  !.duplicates = IF outcome = "duplicate" THEN @ + 1 ELSE @,
                                  !.errors = IF outcome = "failure" THEN @ + 1 ELSE @]
                   /\ tables' = IF outcome = "ok"
                                THEN [tables EXCEPT ![b.table] = @ \cup {b.record}]
                                ELSE tables
    /\ UNCHANGED <<utcoffset, env, run_once, mpc, client, stack, slept, elapsed,
                   data_received, sent, nframes, ended, last>>

\* Every array was handled: collect_and_store returns the count of records
\* stored.
PollReturn ==
    /\ poll.pc = "got"
    /\ poll.response.present /\ Len(poll.response.obs) > 0
    /\ poll.i = Len(poll.response.obs)
    /\ poll' = [poll EXCEPT !.pc = "returned", !.returned = poll.stored]
    /\ UNCHANGED <<utcoffset, env, run_once, mpc, client, stack, slept, elapsed,
                   data_received, tables, sent, nframes, ended, last>>

PollNext ==
    \/ PollWindow
    \/ PollRequest
    \/ PollNoData
    \/ PollStore
    \/ PollReturn

SpecPoll == PollInit /\ [][PollNext]_vars

----
\* A frame was delivered to the receive loop in this step.
FrameStep == nframes' = nframes + 1

\* Activations whose async-with block holds a connection not yet released.
HeldContexts == {i \in 1..Depth : stack[i].ws # "none"}

\* The table each handler inserts into, by the type it is dispatched for.
TableOf(t) ==
    CASE t = "obs_st"     -> "observations_tempest"
      [] t = "obs_air"    -> "air_observations"
      [] t = "obs_sky"    -> "sky_observations"
      [] t = "rapid_wind" -> "rapid_wind"
      [] t = "evt_precip" -> "precipitation_events"
      [] t = "evt_strike" -> "lightning_strikes"
      [] OTHER            -> "none"

\* C1: in run-once mode connect_and_listen performs no reconnect after the
\* peer closed the connection: no activation waits in the closure handler's
\* sleep and none awaits a nested connect_and_listen.
C1_RunOnceNoReconnect ==
    run_once => \A i \in 1..Depth : stack[i].pc \notin {"sleep", "call"}

C3_AtMostOneSession == Cardinality(HeldContexts) <= 1

\* C4: no inbound frame ends the session: after every frame the receive loop
\* is in the same session, awaiting the next frame (the return of a run-once
\* client that has its data apart).
C4_NoFrameEndsSession ==
    [][FrameStep /\ ~(run_once /\ data_received') => stack' = stack /\ ~last'.escaped]_vars
\* C5: a frame of a recognized type whose payload array is empty or absent
\* is a silent no-op: no insert is attempted and nothing is reported.
C5_EmptyPayloadSilent ==
    (/\ last.kind = "object" /\ last.type \in RecognizedTypes
     /\ \/ ~last.present
        \/ last.n = 0 /\ (last.type \in ObsTypes => last.outer >= 1))
        => (last.table = "none" /\ last.report = "none")

\* C6: a successful store of obs_st, obs_air or obs_sky leaves data_received
\* true, and data_received is set by nothing but a successful store.
C6_PrimaryStoreSetsFlag ==
    [][FrameStep =>
         /\ (last'.type \in ObsTypes /\ last'.result = "ok") => data_received'
         /\ data_received' # data_received => last'.result = "ok"
      ]_vars

\* C7: the second store of a record whose (device_id, timestamp) is already
\* in the table adds no row, keeps the session, and is reported as a
\* duplicate, not as an error.
C7_DuplicateIsBenign ==
    [][FrameStep /\ last'.result = "duplicate" =>
         /\ tables' = tables
         /\ stack' = stack
         /\ last'.report = "duplicate"
      ]_vars

\* C8: an insert that fails in the backend is contained in its handler: no
\* exception leaves process_message, the session and main stay where they
\* are, awaiting the next frame, data_received and the tables are unchanged.
C8_BackendFailureContained ==
    [][FrameStep /\ last'.result = "failure" =>
         /\ ~last'.escaped
         /\ stack' = stack /\ Top.pc = "recv" /\ Top.ws = "open"
         /\ mpc' = mpc /\ ended' = ended
         /\ data_received' = data_received
         /\ tables' = tables
      ]_vars

\* C8 witness: the insert of a lightning strike failed and the loop awaits
\* the next frame of the same session.
C8_Witness ==
    /\ last.result = "failure" /\ last.table = "lightning_strikes"
    /\ last.report = "error"
    /\ Depth > 0 /\ Top.pc = "recv" /\ Top.ws = "open"
    /\ nframes < MaxFrames

\* C9: a payload array shorter than the span its type needs yields no
\* insert; no exception leaves the handler and the loop stays in its session.
C9_ShortPayloadNoInsert ==
    [][(FrameStep /\ last'.kind = "object" /\ last'.type \in RecognizedTypes
          /\ last'.present /\ last'.n <= MaxIndex(last'.type)) =>
         /\ last'.table = "none" /\ last'.result = "none"
         /\ last'.report # "stored"
         /\ tables' = tables
         /\ ~last'.escaped
         /\ stack' = stack /\ Top.pc = "recv"
         /\ data_received' = data_received
      ]_vars

\* C9 witness: an obs_st frame with 17 fields was reported as an error and
\* the loop awaits the next frame.
C9_Witness ==
    /\ last.type = "obs_st" /\ last.present /\ last.n = 17
    /\ last.report = "error" /\ last.table = "none"
    /\ Depth > 0 /\ Top.pc = "recv"

\* C10: in continuous mode an exception that leaves connect_and_listen
\* unwinds every activation and starts main's sleep; main leaves the sleep
\* only after RestartDelay seconds, to call connect_and_listen anew, which
\* starts with a fresh connection; main never ends.
C10_FailureRestartsAfterDelay ==
    [][(~run_once /\ mpc # "start") =>
         /\ (ended' = "raised" /\ ended # "raised")
            => (stack' = <<>> /\ mpc' = "sleep" /\ slept' = 0)
         /\ (Depth > 0 /\ Top.pc \in {"connect", "send"} /\ Len(stack') # Depth)
            => ended' = "raised"
         /\ (mpc = "sleep" /\ mpc' # "sleep")
            => (slept = RestartDelay /\ mpc' = "call" /\ stack' = <<>>)
         /\ (mpc = "call" /\ mpc' # "call")
            => (mpc' = "listen" /\ stack' = <<Activation("connect", "none", 0)>>)
         /\ mpc' \in {"call", "listen", "sleep", "config_error"}
      ]_vars

\* C10 witness: continuous mode, an exception left connect_and_listen after a
\* session had subscribed, main slept RestartDelay seconds and is about to
\* call connect_and_listen.
C10_Witness ==
    /\ ~run_once
    /\ ended = "raised"
    /\ mpc = "call"
    /\ Cardinality(sent) = 1

\* C11: a frame of type device_status, hub_status or of an unknown type is
\* only printed: no insert is attempted, the tables and data_received are
\* unchanged.
C11_StatusNeverStored ==
    [][(FrameStep /\ last'.kind = "object" /\ last'.type \notin RecognizedTypes) =>
         /\ last'.table = "none" /\ last'.result = "none"
         /\ last'.report = (IF last'.type \in StatusTypes THEN "status" ELSE "unknown")
         /\ tables' = tables
         /\ data_received' = data_received
      ]_vars

\* C11 witness: a frame of an unknown type was printed as unknown and the
\* loop awaits the next frame.
C11_Witness ==
    /\ last.kind = "object" /\ last.type = "ack"
    /\ last.report = "unknown"
    /\ Depth > 0 /\ Top.pc = "recv"

\* C12: a session sends its subscription once, on the open connection and
\* before its receive loop takes a frame: every frame is received by an
\* activation that has sent exactly one subscription, an activation that has
\* not yet connected has sent none, and the message is listen_start for the
\* target device with the client's id.
C12_OneSubscriptionBeforeFrames ==
    [][/\ FrameStep => (Depth > 0 /\ Top.subs = 1 /\ Top.ws = "open")
       /\ \A i \in 1..Len(stack') :
             /\ stack'[i].subs <= 1
             /\ stack'[i].pc \in {"recv", "sleep", "call"} => stack'[i].subs = 1
             /\ stack'[i].ws = "none" => stack'[i].subs = 0
       /\ sent' # sent => (Depth > 0 /\ Top.pc = "send" /\ Top.ws = "open")
       /\ \A m \in sent' :
             /\ m.type = "listen_start"
             /\ m.device_id = SubscribedDevice
             /\ m.id = "tempest-listener"
      ]_vars

\* C12 witness: a frame was dispatched in a session that has sent one
\* subscription.
C12_Witness ==
    /\ Depth > 0 /\ Top.pc = "recv" /\ Top.subs = 1
    /\ last.kind = "object"
    /\ Cardinality(sent) = 1

\* C13: frames are handled one at a time in arrival order. The tables change
\* only in the iteration of the receive loop that handles a frame, by exactly
\* that frame's record in that frame's table, and an insert that was attempted
\* has its answer (stored, duplicate or failure) before the iteration ends: a
\* stored record is in its table when the next frame can be received.
C13_StoredInArrivalOrder ==
    [][/\ tables' # tables =>
            /\ FrameStep
            /\ last'.result = "ok"
            /\ tables' = [tables EXCEPT ![last'.table] = @ \cup {last'.record}]
       /\ (FrameStep /\ last'.kind = "object" /\ last'.table # "none") =>
            /\ last'.result \in {"ok", "duplicate", "failure"}
            /\ last'.result = "ok" => last'.record \in tables'[last'.table]
            /\ last'.result # "ok" => tables' = tables
      ]_vars

\* Two frames were received in one session; the second one's record went into
\* a table that already held the first one's.
C13_Witness ==
    /\ nframes = 2 /\ Depth = 1 /\ Top.pc = "recv"
    /\ last.result = "ok" /\ last.table = "rapid_wind"
    /\ Cardinality(tables["observations_tempest"]) = 1
    /\ Cardinality(tables["rapid_wind"]) = 1

\* C14: in run-once mode, when the timeout on connect_and_listen expires before
\* data was stored, every activation and its session is gone, the process has
\* ended with the timeout outcome, which is not the error exit, and nothing
\* happens afterwards: no frame is processed and no reconnect is made.
C14_TimeoutAbandonsSession ==
    /\ mpc = "timeout" =>
          /\ run_once /\ ~data_received
          /\ elapsed = Timeout
          /\ stack = <<>> /\ ended = "cancelled"
          /\ ~ENABLED Next
    /\ (run_once /\ ended = "cancelled") => mpc = "timeout"

\* The timeout expired on a subscribed session that had stored a rapid-wind
\* record but no full-station observation.
C14_Witness ==
    /\ mpc = "timeout" /\ elapsed = Timeout
    /\ Cardinality(sent) = 1 /\ nframes = 1
    /\ Cardinality(tables["rapid_wind"]) = 1

\* C15: with the API token or a storage credential missing, the only step the
\* process takes is the one that reports the configuration error and ends: no
\* storage client is created, no activation and no session exists, nothing is
\* sent, and nothing follows.
C15_MissingConfigIsFatal ==
    [][env # EnvNames =>
          /\ mpc = "start" /\ mpc' = "config_error"
          /\ client' = FALSE
          /\ stack' = <<>> /\ sent' = {} /\ nframes' = 0
          /\ tables' = tables
      ]_vars

\* The token is set and the storage key is not: main has ended on the
\* configuration error.
C15_Witness ==
    /\ mpc = "config_error"
    /\ "TEMPEST_TOKEN" \in env /\ "SUPABASE_URL" \in env
    /\ "SUPABASE_KEY" \notin env
    /\ ~client /\ stack = <<>> /\ sent = {}

\* C16: every full-station frame whose first payload array has at least 18
\* elements is decoded into one record for observations_tempest in which each
\* named field is the array element at its documented position, unchanged, and
\* whose timestamp reads as the UTC time of the epoch at index 0.
C16_FullStationDecodedAtUtc ==
    [][(FrameStep /\ last'.kind = "object" /\ last'.type = "obs_st" /\ last'.n >= 18) =>
         LET rec == last'.record
         IN  /\ last'.table = "observations_tempest"
             /\ last'.result \in {"ok", "duplicate", "failure"}
             /\ last'.result = "ok" => rec \in tables'["observations_tempest"]
             /\ rec.device_id = last'.device
             /\ rec.wind_lull = 101 /\ rec.wind_avg = 102 /\ rec.wind_gust = 103
             /\ rec.wind_direction = 104 /\ rec.wind_sample_interval = 105
             /\ rec.pressure = 106 /\ rec.air_temperature = 107
             /\ rec.relative_humidity = 108 /\ rec.illuminance = 109
             /\ rec.uv_index = 110 /\ rec.solar_radiation = 111
             /\ rec.rain_accumulation = 112 /\ rec.precipitation_type = 113
             /\ rec.lightning_avg_distance = 114 /\ rec.lightning_strike_count = 115
             /\ rec.battery = 116 /\ rec.report_interval = 117
             /\ rec.timestamp.wall = ReportedAt(last'.device)
      ]_vars

\* C17: a rapid_wind frame whose ob array has the three elements
\* [epoch, speed, direction] makes one insert, into rapid_wind, of a record
\* whose device_id is the frame's, whose wind_speed is ob[1] and whose
\* wind_direction is ob[2]; when the backend stores it, the tables grow by
\* exactly that row; data_received is left as it was.
C17_RapidWindDecoded ==
    [][(FrameStep /\ last'.kind = "object" /\ last'.type = "rapid_wind" /\ last'.n = 3) =>
         LET rec == last'.record
         IN  /\ last'.table = "rapid_wind"
             /\ rec.device_id = last'.device
             /\ rec.wind_speed = 101 /\ rec.wind_direction = 102
             /\ last'.result \in {"ok", "duplicate", "failure"}
             /\ tables' = IF last'.result = "ok"
                          THEN [tables EXCEPT !["rapid_wind"] = @ \cup {rec}]
                          ELSE tables
             /\ ~last'.flag
             /\ data_received' = data_received
      ]_vars

\* A rapid-wind frame of a device other than the subscribed one was stored;
\* data_received is still unset.
C17_Witness ==
    /\ last.kind = "object" /\ last.type = "rapid_wind" /\ last.n = 3
    /\ last.device # SubscribedDevice
    /\ last.result = "ok"
    /\ last.record \in tables["rapid_wind"]
    /\ ~data_received

\* C18: run-once mode ends after one unit of work. Once data_received is set,
\* no activation of connect_and_listen is left, whatever the number of
\* reconnects that nested them: main has ended normally and nothing follows,
\* so no further frame is received; a run stores at most one full-station
\* record.
C18_RunOnceStopsAfterData ==
    /\ (run_once /\ data_received) =>
          /\ stack = <<>>
          /\ mpc = "done" /\ ended = "returned"
          /\ ~ENABLED Next
    /\ run_once => Cardinality(tables["observations_tempest"]) <= 1

\* The full-station record arrived on the session opened by a reconnect: the
\* nested activation and the one that called it have both returned.
C18_Witness ==
    /\ run_once /\ data_received
    /\ mpc = "done" /\ stack = <<>>
    /\ elapsed = ReconnectDelay
    /\ Cardinality(sent) = 1 /\ nframes = 1
    /\ Cardinality(tables["observations_tempest"]) = 1

\* C20: reconnecting does not grow the call stack: at any moment at most one
\* activation of connect_and_listen is active, none awaits a nested one, and
\* at most one connection context is unreleased.
C20_StackBoundedByOne ==
    /\ Depth <= 1
    /\ \A i \in 1..Depth : stack[i].pc # "call"
    /\ Cardinality(HeldContexts) <= 1

\* C19: when the polling request gets no response, or a response whose
\* observation list is empty, collect_and_store returns the count 0 without
\* raising, after its one request, having made no storage call: no row was
\* written and nothing was counted as stored, duplicate or failed.
C19_PollNoDataReturnsZero ==
    (poll.pc \in {"returned", "raised"}
       /\ (~poll.response.present \/ Len(poll.response.obs) = 0)) =>
         /\ poll.pc = "returned" /\ poll.returned = 0
         /\ poll.requests = 1
         /\ poll.calls = 0
         /\ poll.stored = 0 /\ poll.duplicates = 0 /\ poll.errors = 0
         /\ \A t \in TableNames : tables[t] = {}

\* The request was answered with an empty observation list and the
\* invocation has returned.
C19_Witness ==
    /\ poll.pc = "returned"
    /\ poll.response.present /\ poll.response.obs = <<>>
    /\ poll.requests = 1 /\ poll.returned = 0

\* C21: in continuous mode main never ends on its own; when the outermost
\* connect_and_listen returns normally main is at once back at its call;
\* main leaves the sleep that follows an exception only after RestartDelay
\* seconds; and whenever connect_and_listen has ended, by an exception or by
\* a return, main eventually calls it again.
C21_ContinuousRetriesForever ==
    /\ [](~run_once => mpc \notin {"done", "exit1", "timeout"})
    /\ [][(~run_once /\ ended # "returned" /\ ended' = "returned")
             => (mpc' = "call" /\ stack' = <<>>)]_vars
    /\ [][(~run_once /\ ended = "raised" /\ mpc' = "listen")
             => (mpc = "call" /\ slept = 0)]_vars
    /\ [][(~run_once /\ mpc = "sleep" /\ mpc' # "sleep")
             => (ended = "raised" /\ slept = RestartDelay)]_vars
    /\ (~run_once /\ ended \in {"raised", "returned"}) ~> (mpc = "listen")

\* Continuous mode: the frame stream of a subscribed session ended without an
\* exception after a frame, connect_and_listen returned, and main's loop is at
\* its call again.
C21_Witness ==
    /\ ~run_once
    /\ ended = "returned" /\ mpc = "call" /\ stack = <<>>
    /\ Cardinality(sent) = 1 /\ nframes = 1

\* C22: processing one frame makes at most one insert attempt, and only into
\* the table of the frame's type: every other table is left as it was and the
\* frame's own table gains at most the one record of the attempt.  An obs
\* frame that carries several observation arrays stores the first one only.
C22_OneInsertIntoOwnTable ==
    [][(FrameStep /\ last'.kind = "object") =>
         LET own == TableOf(last'.type)
         IN  /\ last'.table \in {"none", own}
             /\ \A t \in TableNames \ {own} : tables'[t] = tables[t]
             /\ own # "none" =>
                   /\ tables'[own] \subseteq tables[own] \cup {last'.record}
                   /\ tables[own] \subseteq tables'[own]
                   /\ Cardinality(tables'[own]) <= Cardinality(tables[own]) + 1
             /\ (last'.outer >= 2 /\ last'.table # "none") =>
                   last'.record.timestamp = fromtimestamp_isoformat(ReportedAt(last'.device))
      ]_vars

\* An obs_air frame with two observation arrays was stored: its table holds
\* one row and every other table is empty.
C22_Witness ==
    /\ last.kind = "object" /\ last.type = "obs_air" /\ last.outer = 2
    /\ last.result = "ok"
    /\ tables["air_observations"] = {last.record}
    /\ \A t \in TableNames \ {"air_observations"} : tables[t] = {}
====
